---- MODULE Spec2Model ----
(***************************************************************************)
(* Model of the systematic-review extraction agent:                        *)
(*   template_parser.py      - template parsing (Word / Excel) and facade  *)
(*   gemini_api_extractor.py - API front-end: prompt, submit, reconcile,   *)
(*                             save                                        *)
(*   gemini_extractor.py     - browser front-end: prompt, skip, save       *)
(*                                                                         *)
(* A Python str is modelled as a sequence of one-character strings, so     *)
(* that strip, lower, endswith, the regular expressions and the substring  *)
(* tests are computed character by character as the code computes them.    *)
(***************************************************************************)
EXTENDS Integers, Sequences, FiniteSets, TLC

\* ------------------------------------------------------------------------
\* Bounds of the model
\* ------------------------------------------------------------------------
MaxParas == 3
MaxTables == 1
MaxSheets == 2
MaxTextLen == 3
MaxFields == 3
MaxDocs == 2
MaxRespLen == 4
MaxRaceDocs == 2

\* ------------------------------------------------------------------------
\* Characters and the str methods the code uses
\* ------------------------------------------------------------------------
UpperSeq == <<"A","B","C","D","E","F","G","H","I","J","K","L","M",
              "N","O","P","Q","R","S","T","U","V","W","X","Y","Z">>
LowerSeq == <<"a","b","c","d","e","f","g","h","i","j","k","l","m",
              "n","o","p","q","r","s","t","u","v","w","x","y","z">>
UpperChars == {UpperSeq[i] : i \in 1..26}
LowerChars == {LowerSeq[i] : i \in 1..26}
Letters == UpperChars \cup LowerChars
\* str.isspace characters that occur in the inputs: space, tab, line break
Whitespace == {" ", "\t", "\n"}
\* the character U+00B1 of the second section pattern
PlusMinus == "+-"

\* str.lower() on one character
LowerChar(c) ==
  IF c \in UpperChars
    THEN LowerSeq[CHOOSE i \in 1..26 : UpperSeq[i] = c]
    ELSE c

\* str.lower()
Lower(s) == [i \in 1..Len(s) |-> LowerChar(s[i])]

\* str.lstrip() / str.rstrip() / str.strip()
RECURSIVE LStrip(_)
LStrip(s) ==
  IF s # <<>> /\ Head(s) \in Whitespace THEN LStrip(Tail(s)) ELSE s

RECURSIVE RStrip(_)
RStrip(s) ==
  IF s # <<>> /\ s[Len(s)] \in Whitespace
    THEN RStrip(SubSeq(s, 1, Len(s) - 1))
    ELSE s

Strip(s) == RStrip(LStrip(s))

\* str.startswith / str.endswith
StartsWith(s, p) == Len(s) >= Len(p) /\ SubSeq(s, 1, Len(p)) = p
EndsWith(s, p) ==
  Len(s) >= Len(p) /\ SubSeq(s, Len(s) - Len(p) + 1, Len(s)) = p

\* the `in` operator on two strings: p occurs in s
Contains(s, p) ==
  \E i \in 0..(Len(s) - Len(p)) : SubSeq(s, i + 1, i + Len(p)) = p

\* str.isupper(): at least one cased character and no lower-case one
IsUpper(s) ==
  /\ \E i \in 1..Len(s) : s[i] \in UpperChars
  /\ \A i \in 1..Len(s) : s[i] \notin LowerChars

\* str.istitle(): an upper-case letter only after an uncased character, a
\* lower-case letter only after a cased one, and at least one cased letter
IsTitle(s) ==
  /\ \E i \in 1..Len(s) : s[i] \in Letters
  /\ \A i \in 1..Len(s) :
       LET prevCased == i > 1 /\ s[i - 1] \in Letters IN
         /\ s[i] \in UpperChars => ~prevCased
         /\ s[i] \in LowerChars => prevCased

\* len(str.split()): the number of maximal runs of non-whitespace
WordCount(s) ==
  Cardinality({i \in 1..Len(s) :
                 /\ s[i] \notin Whitespace
                 /\ (i = 1 \/ s[i - 1] \in Whitespace)})

\* ------------------------------------------------------------------------
\* template_parser.py: TemplateField
\* ------------------------------------------------------------------------
TemplateField(name, description, section) ==
  [name |-> Strip(name), description |-> Strip(description),
   section |-> Strip(section)]

\* ------------------------------------------------------------------------
\* template_parser.py: WordTemplateParser
\* ------------------------------------------------------------------------
SectionKeywords ==
  { <<"D","e","t","a","i","l","s">>,
    <<"C","h","a","r","a","c","t","e","r","i","s","t","i","c","s">>,
    <<"O","u","t","c","o","m","e","s">>,
    <<"I","d","e","n","t","i","f","i","c","a","t","i","o","n">>,
    <<"I","n","f","o","r","m","a","t","i","o","n">> }

\* [A-Za-z\s]+ : one or more letters or whitespace
LettersOrSpace(s) ==
  s # <<>> /\ \A i \in 1..Len(s) : s[i] \in Letters \cup Whitespace

\* [A-Za-z\s:+-]+ : the class inside the parentheses of the second pattern
QualifierChars(s) ==
  /\ s # <<>>
  /\ \A i \in 1..Len(s) : s[i] \in Letters \cup Whitespace \cup {":", PlusMinus}

\* ^[A-Z][A-Za-z\s]+(?:Details|Characteristics|Outcomes|Identification|Information)$
MatchesKeywordPattern(text) ==
  \E k \in SectionKeywords :
    /\ Len(text) >= Len(k) + 2
    /\ text[1] \in UpperChars
    /\ EndsWith(text, k)
    /\ LettersOrSpace(SubSeq(text, 2, Len(text) - Len(k)))

\* ^[A-Z][A-Za-z\s]+\([A-Za-z\s:+-]+\)$
MatchesQualifierPattern(text) ==
  /\ Len(text) >= 5
  /\ text[1] \in UpperChars
  /\ text[Len(text)] = ")"
  /\ \E p \in 3..(Len(text) - 2) :
       /\ text[p] = "("
       /\ LettersOrSpace(SubSeq(text, 2, p - 1))
       /\ QualifierChars(SubSeq(text, p + 1, Len(text) - 1))

SECTION_PATTERNS(text) ==
  MatchesKeywordPattern(text) \/ MatchesQualifierPattern(text)

\* _is_section_header without the colon test
is_section_header_NoColonTest(text) ==
  IF SECTION_PATTERNS(text)
    THEN TRUE
    ELSE IsUpper(text) \/ (IsTitle(text) /\ WordCount(text) <= 6)

\* WordTemplateParser._is_section_header
is_section_header(text) ==
  IF EndsWith(text, <<":">>)
    THEN FALSE
    ELSE IF SECTION_PATTERNS(text)
      THEN TRUE
      ELSE IsUpper(text) \/ (IsTitle(text) /\ WordCount(text) <= 6)

title_keywords ==
  { <<"t","e","m","p","l","a","t","e">>,
    <<"d","a","t","a"," ","e","x","t","r","a","c","t","i","o","n">>,
    <<"m","e","t","a","-","a","n","a","l","y","s","i","s">> }

\* _is_likely_title without the lower-casing
is_likely_title_CaseSensitive(text) ==
  \E keyword \in title_keywords : Contains(text, keyword)

\* WordTemplateParser._is_likely_title
is_likely_title(text) ==
  \E keyword \in title_keywords : Contains(Lower(text), keyword)

\* FIELD_PATTERN = ^(.+?):\s*(.*)$ under re.match. The lazy group 1 is the
\* shortest non-empty prefix free of line breaks that a colon follows and
\* after which the rest, its leading whitespace skipped, holds no line break.
NoLineBreak(s) == \A i \in 1..Len(s) : s[i] # "\n"

FieldColonAt(text, p) ==
  /\ p >= 2
  /\ text[p] = ":"
  /\ NoLineBreak(SubSeq(text, 1, p - 1))
  /\ NoLineBreak(LStrip(SubSeq(text, p + 1, Len(text))))

FIELD_PATTERN(text) == \E p \in 1..Len(text) : FieldColonAt(text, p)

FieldColon(text) ==
  CHOOSE p \in 1..Len(text) :
    /\ FieldColonAt(text, p)
    /\ \A q \in 1..(p - 1) : ~FieldColonAt(text, q)

FieldGroup1(text) == SubSeq(text, 1, FieldColon(text) - 1)
FieldGroup2(text) == LStrip(SubSeq(text, FieldColon(text) + 1, Len(text)))

\* the paragraph loop with a header that is kept only while no section is set
ParseParagraph_FirstHeaderWins(current_section, fields, para) ==
  LET text == Strip(para)
      same == [current_section |-> current_section, fields |-> fields]
  IN
    IF text = <<>> THEN same
    ELSE IF is_section_header(text)
      THEN [current_section |-> IF current_section = <<>> THEN text
                                ELSE current_section,
            fields |-> fields]
    ELSE IF FIELD_PATTERN(text)
      THEN LET field_name == Strip(FieldGroup1(text))
               field_desc == Strip(FieldGroup2(text))
           IN IF is_likely_title(field_name)
                THEN same
                ELSE [current_section |-> current_section,
                      fields |-> Append(fields,
                        TemplateField(field_name, field_desc, current_section))]
    ELSE same

\* the paragraph loop with the field match tried before the header test
ParseParagraph_FieldFirst(current_section, fields, para) ==
  LET text == Strip(para)
      same == [current_section |-> current_section, fields |-> fields]
  IN
    IF text = <<>> THEN same
    ELSE IF FIELD_PATTERN(text)
      THEN LET field_name == Strip(FieldGroup1(text))
               field_desc == Strip(FieldGroup2(text))
           IN IF is_likely_title(field_name)
                THEN same
                ELSE [current_section |-> current_section,
                      fields |-> Append(fields,
                        TemplateField(field_name, field_desc, current_section))]
    ELSE IF is_section_header(text)
      THEN [current_section |-> text, fields |-> fields]
    ELSE same

\* One iteration of the paragraph loop of WordTemplateParser.parse, on the
\* running state (current_section, fields) and the paragraph's text.
ParseParagraph(current_section, fields, para) ==
  LET text == Strip(para)
      same == [current_section |-> current_section, fields |-> fields]
  IN
    IF text = <<>> THEN same
    ELSE IF is_section_header(text)
      THEN [current_section |-> text, fields |-> fields]
    ELSE IF FIELD_PATTERN(text)
      THEN LET field_name == Strip(FieldGroup1(text))
               field_desc == Strip(FieldGroup2(text))
           IN IF is_likely_title(field_name)
                THEN same
                ELSE [current_section |-> current_section,
                      fields |-> Append(fields,
                        TemplateField(field_name, field_desc, current_section))]
    ELSE same

\* One iteration of the row loop of WordTemplateParser._parse_table: the
\* row at index row_idx (from 0) of a table, a row being its cells' texts.
ParseRow(fields, row, row_idx, current_section) ==
  LET first_cell == Lower(Strip(row[1])) IN
    IF /\ row_idx = 0
       /\ \/ Contains(first_cell, <<"f","i","e","l","d">>)
          \/ Contains(first_cell, <<"c","o","l","u","m","n">>)
      THEN fields
    ELSE IF Len(row) >= 2
      THEN LET field_name == Strip(row[1])
               field_desc == Strip(row[2])
           IN IF field_name # <<>> /\ ~is_likely_title(field_name)
                THEN Append(fields,
                       TemplateField(field_name, field_desc, current_section))
                ELSE fields
    ELSE fields

RECURSIVE ParseRows(_, _, _, _)
ParseRows(fields, table, row_idx, current_section) ==
  IF row_idx >= Len(table)
    THEN fields
    ELSE ParseRows(ParseRow(fields, table[row_idx + 1], row_idx, current_section),
                   table, row_idx + 1, current_section)

\* _parse_table tagging its fields with no section
parse_table_NoSection(table, current_section) ==
  ParseRows(<<>>, table, 0, <<>>)

\* WordTemplateParser._parse_table
parse_table(table, current_section) ==
  ParseRows(<<>>, table, 0, current_section)

\* ------------------------------------------------------------------------
\* template_parser.py: ExcelTemplateParser
\* ------------------------------------------------------------------------
\* A column header as pandas reports it: isstr FALSE is a header that is
\* not a str (a number, a date).
Unnamed == <<"U","n","n","a","m","e","d">>

RECURSIVE ParseColumns(_, _, _)
ParseColumns(fields, columns, sheet_name) ==
  IF columns = <<>>
    THEN fields
    ELSE LET col_name == Head(columns) IN
      ParseColumns(
        IF col_name.isstr /\ ~StartsWith(col_name.text, Unnamed)
          THEN Append(fields, TemplateField(col_name.text, <<>>, sheet_name))
          ELSE fields,
        Tail(columns), sheet_name)

\* One iteration of the sheet loop of ExcelTemplateParser.parse
ParseSheet(fields, sheet) == ParseColumns(fields, sheet.columns, sheet.sheet_name)

\* ------------------------------------------------------------------------
\* template_parser.py: detect_template_format, parse_template
\* ------------------------------------------------------------------------
\* str.rfind, 1-based, 0 when absent
RFind(s, c) ==
  IF \E i \in 1..Len(s) : s[i] = c
    THEN CHOOSE i \in 1..Len(s) : s[i] = c /\ \A j \in (i + 1)..Len(s) : s[j] # c
    ELSE 0

\* os.path.splitext(p)[1]: from the last dot of the last path component,
\* unless only dots precede it there
SplitExt(p) ==
  LET sepIndex == RFind(p, "/")
      dotIndex == RFind(p, ".")
  IN IF /\ dotIndex > sepIndex
        /\ \E i \in (sepIndex + 1)..(dotIndex - 1) : p[i] # "."
       THEN SubSeq(p, dotIndex, Len(p))
       ELSE <<>>

detect_template_format(filepath) ==
  LET ext == Lower(SplitExt(filepath)) IN
    IF ext = <<".","d","o","c","x">> THEN "word"
    ELSE IF ext \in { <<".","x","l","s","x">>, <<".","x","l","s">> } THEN "excel"
    ELSE "None"

\* the checks before a parser runs, the format tested before the existence
PreParse_FormatFirst(t) ==
  LET format_type == detect_template_format(t.filepath) IN
    IF format_type = "None" THEN "UnsupportedFormat"
    ELSE IF ~t.exists THEN "NotFound"
    ELSE format_type

\* parse_template, the checks before a parser runs: the existence of the
\* path first, then the format by extension.
PreParse(t) ==
  IF ~t.exists
    THEN "NotFound"
    ELSE LET format_type == detect_template_format(t.filepath) IN
      IF format_type = "word" THEN "word"
      ELSE IF format_type = "excel" THEN "excel"
      ELSE "UnsupportedFormat"

\* parse_template, the check after the parser returned its fields
PostParse(fields) ==
  IF fields = <<>>
    THEN [kind |-> "EmptyTemplate", fields |-> <<>>]
    ELSE [kind |-> "returned", fields |-> fields]

\* WordTemplateParser.parse, ExcelTemplateParser.parse and parse_template as
\* functions of the template file, for the callers of load_template
RECURSIVE ParseParagraphs(_, _, _)
ParseParagraphs(current_section, fields, paras) ==
  IF paras = <<>>
    THEN [current_section |-> current_section, fields |-> fields]
    ELSE LET r == ParseParagraph(current_section, fields, Head(paras)) IN
      ParseParagraphs(r.current_section, r.fields, Tail(paras))

RECURSIVE ParseTables(_, _, _)
ParseTables(fields, tables, current_section) ==
  IF tables = <<>>
    THEN fields
    ELSE ParseTables(fields \o parse_table(Head(tables), current_section),
                     Tail(tables), current_section)

WordTemplateParser_parse(t) ==
  LET r == ParseParagraphs(<<>>, <<>>, t.paras) IN
    ParseTables(r.fields, t.tables, r.current_section)

RECURSIVE ParseSheets(_, _)
ParseSheets(fields, sheets) ==
  IF sheets = <<>>
    THEN fields
    ELSE ParseSheets(ParseSheet(fields, Head(sheets)), Tail(sheets))

ExcelTemplateParser_parse(t) == ParseSheets(<<>>, t.sheets)

parse_template(t) ==
  LET pre == PreParse(t) IN
    IF pre = "word" THEN PostParse(WordTemplateParser_parse(t))
    ELSE IF pre = "excel" THEN PostParse(ExcelTemplateParser_parse(t))
    ELSE [kind |-> pre, fields |-> <<>>]

\* get_field_names
get_field_names(fs) == [i \in 1..Len(fs) |-> fs[i].name]

\* ------------------------------------------------------------------------
\* gemini_api_extractor.py / gemini_extractor.py: create_prompt
\* ------------------------------------------------------------------------
General == <<"G","e","n","e","r","a","l">>

\* The fixed sentences of the prompt, each kept whole as one element of the
\* text; none of them starts with a dash. The three grave accents of the
\* code fence named in the last sentence are written [fence].
ApiPreamble ==
  << "You are an expert scientific researcher. Extract the following information from the attached PDF study.", "\n",
     "Return the result as a valid JSON object where keys are the 'Field Name' and values are the extracted text/numbers. If information is strictly missing, use null.", "\n",
     "Do not hallucinate data. If you are unsure, extraction is better left as null.", "\n", "\n" >>
ApiClosing ==
  << "\n", "Return ONLY the JSON object. No markdown formatting (like [fence]json), no preamble." >>
WebPreamble ==
  << "Extract the following information from the attached PDF. Return the result as a valid JSON object where keys are the 'Field Name' and values are the extracted text. If information is missing, use null.", "\n", "\n" >>
WebClosing ==
  << "\n", "CRUCIAL: Verify the extracted data against the PDF one more time before outputting to ensure accuracy. Return ONLY the JSON object, no markdown formatting." >>

\* position of the entry of dict `sections` with this key, 0 when absent
SectionIndex(sections, name) ==
  IF \E i \in 1..Len(sections) : sections[i].name = name
    THEN CHOOSE i \in 1..Len(sections) : sections[i].name = name
    ELSE 0

\* the grouping loop: sections[section].append(field), the dict keeping the
\* order in which its keys were first set
RECURSIVE GroupBySection(_, _)
GroupBySection(sections, fs) ==
  IF fs = <<>>
    THEN sections
    ELSE LET field == Head(fs)
             section == IF field.section # <<>> THEN field.section ELSE General
             at == SectionIndex(sections, section)
         IN GroupBySection(
              IF at = 0
                THEN Append(sections, [name |-> section, fields |-> <<field>>])
                ELSE [sections EXCEPT ![at].fields = Append(@, field)],
              Tail(fs))

\* the bullets of one section
RECURSIVE RenderFields(_)
RenderFields(fs) ==
  IF fs = <<>>
    THEN <<>>
    ELSE LET field == Head(fs)
             desc == IF field.description # <<>>
                       THEN <<":", " ">> \o field.description
                       ELSE <<>>
         IN <<"-", " ">> \o field.name \o desc \o <<"\n">> \o RenderFields(Tail(fs))

\* the banner and bullets of every section; the browser front-end ends each
\* section with an empty line
RECURSIVE RenderSections(_, _)
RenderSections(sections, front) ==
  IF sections = <<>>
    THEN <<>>
    ELSE LET sec == Head(sections) IN
      <<"-", "-", "-", " ">> \o sec.name \o <<" ", "-", "-", "-", "\n">>
        \o RenderFields(sec.fields)
        \o (IF front = "web" THEN <<"\n">> ELSE <<>>)
        \o RenderSections(Tail(sections), front)

\* create_prompt with sections visited in the order of their last field
create_prompt_Ungrouped(TEMPLATE_FIELDS, front) ==
  (IF front = "api" THEN ApiPreamble ELSE WebPreamble)
    \o RenderSections(
         [i \in 1..Len(TEMPLATE_FIELDS) |->
            [name |-> IF TEMPLATE_FIELDS[i].section # <<>>
                        THEN TEMPLATE_FIELDS[i].section ELSE General,
             fields |-> <<TEMPLATE_FIELDS[i]>>]], front)
    \o (IF front = "api" THEN ApiClosing ELSE WebClosing)

\* create_prompt of either front-end, the template loaded
create_prompt(TEMPLATE_FIELDS, front) ==
  (IF front = "api" THEN ApiPreamble ELSE WebPreamble)
    \o RenderSections(GroupBySection(<<>>, TEMPLATE_FIELDS), front)
    \o (IF front = "api" THEN ApiClosing ELSE WebClosing)

\* ------------------------------------------------------------------------
\* gemini_api_extractor.clean_json_string
\* ------------------------------------------------------------------------
\* the character U+0060, which no string of this notation can hold
Backtick == "[backtick]"
Fence == <<Backtick, Backtick, Backtick>>

\* str.find("\n"), counted from 1; 0 when there is none
FindNewline(s) ==
  IF \E i \in 1..Len(s) : s[i] = "\n"
    THEN CHOOSE i \in 1..Len(s) : s[i] = "\n" /\ \A j \in 1..(i - 1) : s[j] # "\n"
    ELSE 0

\* the cleaner with the closing fence left in place
clean_json_string_KeepClosing(response_text) ==
  LET text == Strip(response_text)
      first_newline == FindNewline(text)
  IN Strip(IF StartsWith(text, Fence) /\ first_newline # 0
             THEN SubSeq(text, first_newline + 1, Len(text))
             ELSE text)

clean_json_string(response_text) ==
  LET text == Strip(response_text)
      first_newline == FindNewline(text)
      body == IF first_newline # 0
                THEN SubSeq(text, first_newline + 1, Len(text))
                ELSE text
      unfenced == IF EndsWith(body, Fence)
                    THEN SubSeq(body, 1, Len(body) - 3)
                    ELSE body
  IN Strip(IF StartsWith(text, Fence) THEN unfenced ELSE text)

\* ------------------------------------------------------------------------
\* The data of a run: the raw record (a dict), the frames and the file
\* ------------------------------------------------------------------------
SourceFile == <<"S","o","u","r","c","e"," ","F","i","l","e">>

\* the values of a frame's cells: a str, None, NaN; in the file a cell that
\* holds nothing
Str(text) == [kind |-> "str", text |-> text]
None == [kind |-> "None", text |-> <<>>]
NaN == [kind |-> "NaN", text |-> <<>>]
EmptyCell == [kind |-> "empty", text |-> <<>>]

\* a dict as the sequence of its items, in insertion order
HasKey(d, k) == \E i \in 1..Len(d) : d[i].key = k
GetKey(d, k) == d[CHOOSE i \in 1..Len(d) : d[i].key = k].value
SetKey(d, k, v) ==
  IF HasKey(d, k)
    THEN [i \in 1..Len(d) |-> IF d[i].key = k THEN [key |-> k, value |-> v] ELSE d[i]]
    ELSE Append(d, [key |-> k, value |-> v])

Frame(columns, rows) == [columns |-> columns, rows |-> rows]
InColumns(df, c) == \E j \in 1..Len(df.columns) : df.columns[j] = c
\* the first column of the frame with this label
ColumnAt(df, c) == CHOOSE j \in 1..Len(df.columns) :
                     df.columns[j] = c /\ \A m \in 1..(j - 1) : df.columns[m] # c
Unique(columns) ==
  \A i, j \in 1..Len(columns) : columns[i] = columns[j] => i = j

\* pd.DataFrame([data])
DataFrame(data) ==
  Frame([i \in 1..Len(data) |-> data[i].key],
        << [i \in 1..Len(data) |-> data[i].value] >>)

\* for c in ALL_COLUMNS: if c not in df.columns: df[c] = None
RECURSIVE EnsureColumns(_, _)
EnsureColumns(df, columns) ==
  IF columns = <<>>
    THEN df
    ELSE EnsureColumns(
           IF InColumns(df, Head(columns))
             THEN df
             ELSE Frame(Append(df.columns, Head(columns)),
                        [r \in 1..Len(df.rows) |-> Append(df.rows[r], None)]),
           Tail(columns))

\* df[cols]
SelectColumns(df, cols) ==
  Frame(cols,
        [r \in 1..Len(df.rows) |->
           [j \in 1..Len(cols) |-> df.rows[r][ColumnAt(df, cols[j])]]])

\* the frame saved for one record with every extra key kept
ReconcileKeepingExtras(data, ALL_COLUMNS) ==
  EnsureColumns(DataFrame(data), ALL_COLUMNS)

\* main, "Save Incrementally": the frame built from one record
Reconcile(data, ALL_COLUMNS) ==
  LET df == EnsureColumns(DataFrame(data), ALL_COLUMNS)
      Present(c) == InColumns(df, c)
      cols == <<SourceFile>> \o SelectSeq(ALL_COLUMNS, Present)
  IN SelectColumns(df, cols)

\* OUTPUT_FILE: absent, a table (header and rows of cells), or a file that
\* cannot be read as a table
AbsentFile == [kind |-> "absent", columns |-> <<>>, rows |-> <<>>]
CorruptFile == [kind |-> "corrupt", columns |-> <<>>, rows |-> <<>>]
TableFile(columns, rows) == [kind |-> "table", columns |-> columns, rows |-> rows]

Digits == <<"1","2","3","4","5","6","7","8","9">>

\* pd.read_excel: a repeated header gets the suffix .1, .2, ...; a cell that
\* holds nothing, or one of the texts pandas takes for a missing value
\* (keep_default_na is left on), is read as NaN
ReadColumns(columns) ==
  [j \in 1..Len(columns) |->
     LET n == Cardinality({m \in 1..(j - 1) : columns[m] = columns[j]}) IN
       IF n = 0 THEN columns[j] ELSE columns[j] \o <<".", Digits[n]>>]

NaTexts ==
  { <<"N","A">>, <<"N","/","A">>, <<"n","/","a">>, <<"N","U","L","L">>,
    <<"n","u","l","l">>, <<"N","a","N">>, <<"n","a","n">>, <<"N","o","n","e">>,
    <<"<","N","A",">">>, <<"#","N","A">>, <<"#","N","/","A">>,
    <<"-","N","a","N">>, <<"-","n","a","n">>, <<>> }

ReadCell(cell) ==
  IF cell.kind = "empty" \/ (cell.kind = "str" /\ cell.text \in NaTexts)
    THEN NaN
    ELSE cell

read_excel(f) ==
  Frame(ReadColumns(f.columns),
        [r \in 1..Len(f.rows) |->
           [j \in 1..Len(f.rows[r]) |-> ReadCell(f.rows[r][j])]])

\* pd.concat([existing, df], ignore_index=True): equal column lists are
\* stacked; otherwise the union of the columns, existing's first, to which
\* both frames are reindexed, which pandas refuses on repeated labels
ConcatRaises(existing, df) ==
  /\ existing.columns # df.columns
  /\ ~Unique(existing.columns) \/ ~Unique(df.columns)

Reindex(df, columns) ==
  [r \in 1..Len(df.rows) |->
     [j \in 1..Len(columns) |->
        IF InColumns(df, columns[j])
          THEN df.rows[r][ColumnAt(df, columns[j])]
          ELSE NaN]]

concat(existing, df) ==
  IF existing.columns = df.columns
    THEN Frame(existing.columns, existing.rows \o df.rows)
    ELSE LET New(c) == ~InColumns(existing, c)
             columns == existing.columns \o SelectSeq(df.columns, New)
         IN Frame(columns, Reindex(existing, columns) \o Reindex(df, columns))

\* df.to_excel(OUTPUT_FILE, index=False): None and NaN leave the cell empty
WriteCell(v) == IF v.kind \in {"None", "NaN"} THEN EmptyCell ELSE v

to_excel(df) ==
  TableFile(df.columns,
            [r \in 1..Len(df.rows) |->
               [j \in 1..Len(df.rows[r]) |-> WriteCell(df.rows[r][j])]])

\* to_excel opens OUTPUT_FILE for writing before the first cell is written:
\* a write that fails leaves what was written so far, a table cut short or
\* a file that is no workbook
FailedWrites(df) ==
  {CorruptFile}
    \cup {TableFile(df.columns, SubSeq(to_excel(df).rows, 1, k)) :
            k \in 0..(Len(df.rows) - 1)}

\* ------------------------------------------------------------------------
\* main of both front-ends: the files to process
\* ------------------------------------------------------------------------
max_retries == 3

\* f.lower().endswith('.pdf')
IsPdf(f) == EndsWith(Lower(f), <<".", "p", "d", "f">>)

\* --limit: absent (None), or the number given
NoLimit == [given |-> FALSE, n |-> 0]
Limit(n) == [given |-> TRUE, n |-> n]

\* files[:int(limit)]
ApplyLimit(files, limit) ==
  IF limit.given /\ limit.n < Len(files) THEN SubSeq(files, 1, limit.n) ELSE files

\* the 'Source File' column of the table read, as a list
SourceColumn(existing) ==
  [r \in 1..Len(existing.rows) |-> existing.rows[r][ColumnAt(existing, SourceFile)]]

\* .astype(str) / .dropna()
AsStr(v) == IF v.kind = "NaN" THEN <<"n", "a", "n">> ELSE v.text

\* gemini_api_extractor.main, "Filter processed": basenames not among the
\* recorded identifiers; a file that cannot be read records nothing
ApiFilter(pdf_files, f) ==
  LET existing == read_excel(f)
      processed_files ==
        IF f.kind = "table" /\ InColumns(existing, SourceFile)
          THEN {AsStr(SourceColumn(existing)[r]) : r \in 1..Len(existing.rows)}
          ELSE {}
      Unprocessed(b) == b \notin processed_files
  IN SelectSeq(pdf_files, Unprocessed)

\* gemini_extractor.main, "Resume Skip Logic": basenames that occur in no
\* recorded identifier
WebFilter(pdf_files, f) ==
  LET existing == read_excel(f)
      processed_files ==
        IF f.kind = "table" /\ InColumns(existing, SourceFile)
          THEN {AsStr(SourceColumn(existing)[r]) :
                  r \in {q \in 1..Len(existing.rows) :
                           SourceColumn(existing)[q].kind # "NaN"}}
          ELSE {}
      Kept(b) == ~\E recorded \in processed_files : Contains(recorded, b)
  IN SelectSeq(pdf_files, Kept)

\* a filter that skips nothing
FilterProcessed_None(front, pdf_files, f) == pdf_files

FilterProcessed(front, pdf_files, f) ==
  IF front = "api" THEN ApiFilter(pdf_files, f) ELSE WebFilter(pdf_files, f)

\* ------------------------------------------------------------------------
\* Template inputs
\* ------------------------------------------------------------------------
\* all sequences over S of length at most n
RECURSIVE SeqsUpTo(_, _)
SeqsUpTo(S, n) ==
  IF n = 0
    THEN {<<>>}
    ELSE LET shorter == SeqsUpTo(S, n - 1) IN
      shorter \cup {Append(q, e) : q \in shorter, e \in S}

\* paragraph texts: one per branch of the paragraph loop
ParaLines ==
  { <<" ">>,
    <<"A","B">>,
    <<"C","o",":"," ","U","s">>,
    <<"A"," ","b"," ","D","e","t","a","i","l","s">>,
    <<"A"," ","b"," ","D","e","t","a","i","l","s",":">>,
    <<" ","a","g","e",":"," "," ","y","r"," ">>,
    <<"M","y"," ","T","e","m","p","l","a","t","e",":"," ","x">>,
    <<"n","o","t","e">> }

\* every short text over a few characters, for the classifiers
GenAlphabet == {"A", "b", " ", ":", "\n"}
GenTexts == SeqsUpTo(GenAlphabet, MaxTextLen) \ {<<>>}

\* tables of a Word document: a header row, a row of one cell, a row with an
\* empty first cell, a title-like row, a first row that is no header
TableSamples ==
  { << << <<"F","i","e","l","d">>, <<"D","e","s","c">> >>,
       << <<" ","w"," ">>, <<"d">> >> >>,
    << << <<"v">>, <<>> >>,
       << <<"x">> >>,
       << <<" ">>, <<"d">> >>,
       << <<"D","a","t","a"," ","E","x","t","r","a","c","t","i","o","n">>, <<"d">> >>,
       << <<"C","o","l","u","m","n">>, <<"e">>, <<"f">> >> >>,
    << << <<"M","e","t","a","-","A","n","a","l","y","s","i","s">>, <<"d">> >> >> }

Col(text) == [isstr |-> TRUE, text |-> text]
NonStrCol == [isstr |-> FALSE, text |-> <<"2","0","2","0">>]

\* sheets of a spreadsheet: named columns, a placeholder header, a header
\* that is a number, a sheet with no usable header, a header that is a
\* single space
SheetSamples ==
  { [sheet_name |-> <<"S","1">>, columns |-> <<Col(<<"A">>), Col(<<"B">>)>>],
    [sheet_name |-> <<" ","S","2">>,
     columns |-> <<Col(<<"C"," ">>),
                   Col(<<"U","n","n","a","m","e","d",":"," ","1">>),
                   NonStrCol>>],
    [sheet_name |-> <<"S","3">>,
     columns |-> <<Col(<<"U","n","n","a","m","e","d",":"," ","0">>)>>],
    [sheet_name |-> <<"S","4">>, columns |-> <<Col(<<"D">>), Col(<<" ">>)>>] }

WordPaths == { <<"t",".","d","o","c","x">>, <<"d",".","x","/","t",".","D","O","C","X">> }
ExcelPaths == { <<"t",".","x","l","s","x">>, <<"t",".","X","l","s">> }
OtherPaths == { <<"t",".","d","o","c">>, <<"t">>, <<".","d","o","c","x">>,
                <<"a",".","x","l","s","/","t">>, <<"t",".","p","d","f">> }

Template(exists, filepath, paras, tables, sheets) ==
  [exists |-> exists, filepath |-> filepath, paras |-> paras,
   tables |-> tables, sheets |-> sheets]

\* the template files: a Word file holds paragraphs and tables, a
\* spreadsheet holds sheets, a missing file holds nothing
Templates ==
  {Template(TRUE, <<"t",".","d","o","c","x">>, d, tb, <<>>) :
     d \in SeqsUpTo(ParaLines, MaxParas), tb \in SeqsUpTo(TableSamples, MaxTables)}
  \cup {Template(TRUE, <<"t",".","d","o","c","x">>, <<g>>, <<>>, <<>>) : g \in GenTexts}
  \cup {Template(TRUE, fp, <<>>, <<>>, sh) :
          fp \in ExcelPaths, sh \in SeqsUpTo(SheetSamples, MaxSheets)}
  \cup {Template(TRUE, fp, d, <<>>, <<>>) :
          fp \in WordPaths, d \in SeqsUpTo(ParaLines, 1)}
  \cup {Template(e, fp, <<>>, <<>>, <<>>) :
          e \in BOOLEAN, fp \in WordPaths \cup ExcelPaths \cup OtherPaths}

\* Field Sets for the prompt: fields as TemplateField builds them, with and
\* without description, in no section, in a section named General and in
\* another, and one name that holds a line break (a table cell of two
\* paragraphs)
PromptNames == { <<"a">>, <<"b">>, <<"a", "\n", "-", " ", "b">> }
PromptDescriptions == { <<>>, <<"d">> }
PromptSections == { <<>>, General, <<"S">> }
PromptFields ==
  {TemplateField(n, d, sec) :
     n \in PromptNames, d \in PromptDescriptions, sec \in PromptSections}
FieldSets == SeqsUpTo(PromptFields, MaxFields) \ {<<>>}

\* Inputs of a run: the template file, the Articles directory, the
\* OUTPUT_FILE found, the records the service returns
NameX == <<"X">>
NameY == <<"Y">>
NameZ == <<"Z">>
NameW == <<"W">>

RunTemplates ==
  { Template(TRUE, <<"t",".","d","o","c","x">>,
             << <<"X",":">>, <<"Y",":"," ","d">>, <<"Z",":">> >>, <<>>, <<>>),
    Template(TRUE, <<"t",".","x","l","s","x">>, <<>>, <<>>,
             << [sheet_name |-> <<"S","1">>, columns |-> <<Col(NameX)>>],
                [sheet_name |-> <<"S","2">>, columns |-> <<Col(NameX)>>] >>),
    Template(FALSE, <<"t",".","d","o","c","x">>, <<>>, <<>>, <<>>),
    Template(TRUE, <<"t",".","p","d","f">>, <<>>, <<>>, <<>>),
    Template(TRUE, <<"t",".","d","o","c","x">>,
             << <<"M","y"," ","T","e","m","p","l","a","t","e",":"," ","x">> >>,
             <<>>, <<>>) }

a_pdf == <<"a",".","p","d","f">>
ba_pdf == <<"b","a",".","p","d","f">>
c_PDF == <<"c",".","P","D","F">>
n_txt == <<"n",".","t","x","t">>
ArticleNames == {a_pdf, ba_pdf, c_PDF, n_txt}

\* os.listdir(ARTICLES_DIR): distinct names, in any order
Listings == {l \in SeqsUpTo(ArticleNames, MaxDocs) : Unique(l)}

Item(k, v) == [key |-> k, value |-> v]
\* the JSON objects the service returns: the record of the reconciliation
\* example, an empty object, one whose X is the text N/A, and one with a
\* null, a key named like the identifier and no X
RawRecords ==
  { << Item(NameX, Str(<<"1">>)), Item(NameW, Str(<<"i","g","n">>)) >>,
    <<>>,
    << Item(NameX, Str(<<"N","/","A">>)) >>,
    << Item(NameY, None), Item(SourceFile, Str(<<"x">>)), Item(NameZ, Str(<<"3">>)) >> }

XYZ == <<SourceFile, NameX, NameY, NameZ>>
\* OUTPUT_FILE as a run finds it: absent, unreadable, or the table of an
\* earlier run (of this template, of another one, without identifier column,
\* with an identifier left empty)
InitialFiles ==
  { AbsentFile,
    CorruptFile,
    TableFile(XYZ, << <<Str(a_pdf), Str(<<"1">>), EmptyCell, EmptyCell>> >>),
    TableFile(XYZ, << <<Str(ba_pdf), EmptyCell, Str(<<"2">>), EmptyCell>> >>),
    TableFile(<<SourceFile, NameW>>, << <<Str(a_pdf), Str(<<"9">>)>> >>),
    TableFile(<<NameW>>, << <<Str(<<"9">>)>> >>),
    TableFile(<<SourceFile, NameX>>,
              << <<EmptyCell, Str(<<"1">>)>>, <<Str(c_PDF), EmptyCell>> >>) }

Limits == {NoLimit, Limit(1)}

\* ------------------------------------------------------------------------
\* State
\* ------------------------------------------------------------------------
VARIABLES
  tmpl,             \* parse_template: the template file given
  ppc,              \* parse_template: where the call stands
  pidx,             \* the paragraphs, tables or sheets handled so far
  current_section,  \* WordTemplateParser.parse: current_section
  fields,           \* the parser's fields
  origins,          \* for each field, where it came from
  secTrace,         \* current_section after each paragraph handled
  outcome,          \* what parse_template raised or returned
  TEMPLATE_FIELDS,  \* the global TEMPLATE_FIELDS of a front-end
  frontend,         \* "api": gemini_api_extractor, "web": gemini_extractor
  prompt,           \* what create_prompt returned
  pc,               \* main: where the run stands
  template,         \* main: the file at template_path
  dirExists,        \* whether ARTICLES_DIR exists
  articles,         \* os.listdir(ARTICLES_DIR)
  limit,            \* main: limit
  file,             \* OUTPUT_FILE
  ALL_COLUMNS,      \* the global ALL_COLUMNS
  files_to_process, \* main: files_to_process (pdf_files after the skip)
  idx,              \* main: the position of pdf_path in files_to_process
  attempt,          \* main: attempt of the retry loop
  data,             \* main: the record extracted for pdf_path
  row,              \* main: df as built from the record
  df,               \* main: df as it is written
  file0,            \* OUTPUT_FILE as the run found it
  lastSave,         \* the last to_excel: how it ended, the file before it, the row
  log,              \* the submissions and saves of the run, in order
  sample_state,     \* extract_study_with_api: sample_file.state.name
  polls,            \* extract_study_with_api: parity of the turns of the wait loop
  returned,         \* main: whether data is a record, "RETRY" or None
  response_text,    \* clean_json_string: the text given
  cleaned,          \* clean_json_string: what it returned
  table,            \* OUTPUT_FILE shared by two runs
  rpc,              \* for each of the two runs, where its main stands
  rfiles,           \* for each run, its files_to_process
  ridx,             \* for each run, the position of pdf_path
  rrow,             \* for each run, df as built from the record
  rdf,              \* for each run, df as it is written
  saved,            \* the saves that printed "Saved ...", in order
  reported          \* the runs that ended with an exception

parserVars == <<tmpl, ppc, pidx, current_section, fields, origins, secTrace, outcome>>
promptVars == <<TEMPLATE_FIELDS, frontend, prompt>>
runVars == <<pc, template, dirExists, articles, limit, file, ALL_COLUMNS,
             files_to_process, idx, attempt, data, row, df, file0, lastSave, log,
             sample_state, polls, returned>>
cleanerVars == <<response_text, cleaned>>
raceVars == <<table, rpc, rfiles, ridx, rrow, rdf, saved, reported>>
vars == <<parserVars, promptVars, runVars, cleanerVars, raceVars>>

NoPrompt == <<"none">>

\* the variables of create_prompt while the parser is looked at alone
PromptIdle ==
  /\ TEMPLATE_FIELDS = <<>>
  /\ frontend = "api"
  /\ prompt = NoPrompt

NotCleaned == <<"none">>

\* the variables of clean_json_string while it is not looked at
CleanerIdle ==
  /\ response_text = <<>>
  /\ cleaned = NotCleaned

NoFrame == Frame(<<>>, <<>>)
NoSave == [status |-> "none", before |-> AbsentFile, row |-> NoFrame]

\* the variables of main while no run is looked at
RunIdle ==
  /\ pc = "idle"
  /\ template = Template(FALSE, <<>>, <<>>, <<>>, <<>>)
  /\ dirExists = FALSE
  /\ articles = <<>>
  /\ limit = NoLimit
  /\ file = AbsentFile
  /\ ALL_COLUMNS = <<>>
  /\ files_to_process = <<>>
  /\ idx = 0
  /\ attempt = 0
  /\ data = <<>>
  /\ row = NoFrame
  /\ df = NoFrame
  /\ file0 = AbsentFile
  /\ lastSave = NoSave
  /\ log = <<>>
  /\ sample_state = "none"
  /\ polls = 0
  /\ returned = "nothing"

Runs == {1, 2}

\* the variables of the two concurrent runs while they are not looked at
RaceIdle ==
  /\ table = AbsentFile
  /\ rpc = [r \in Runs |-> "idle"]
  /\ rfiles = [r \in Runs |-> <<>>]
  /\ ridx = [r \in Runs |-> 0]
  /\ rrow = [r \in Runs |-> NoFrame]
  /\ rdf = [r \in Runs |-> NoFrame]
  /\ saved = <<>>
  /\ reported = {}

NoOutcome == [kind |-> "none", fields |-> <<>>]

ParserInit ==
  /\ tmpl \in Templates
  /\ ppc = "start"
  /\ pidx = 0
  /\ current_section = <<>>
  /\ fields = <<>>
  /\ origins = <<>>
  /\ secTrace = <<>>
  /\ outcome = NoOutcome
  /\ PromptIdle
  /\ RunIdle
  /\ CleanerIdle
  /\ RaceIdle

\* parse_template up to the parser's call
ParseTemplateEnter ==
  /\ ppc = "start"
  /\ LET r == PreParse(tmpl) IN
       IF r \in {"NotFound", "UnsupportedFormat"}
         THEN /\ ppc' = "raised"
              /\ outcome' = [kind |-> r, fields |-> <<>>]
         ELSE /\ ppc' = IF r = "word" THEN "paras" ELSE "sheets"
              /\ outcome' = outcome
  /\ UNCHANGED <<tmpl, pidx, current_section, fields, origins, secTrace>>
  /\ UNCHANGED promptVars
  /\ UNCHANGED <<runVars, cleanerVars, raceVars>>

\* the fields from position n on come from `src`, item `at`
Extend(orig, n, src, at) ==
  orig \o [i \in 1..n |-> [src |-> src, at |-> at]]

\* WordTemplateParser.parse: one paragraph
ParagraphStep ==
  /\ ppc = "paras"
  /\ pidx < Len(tmpl.paras)
  /\ LET r == ParseParagraph(current_section, fields, tmpl.paras[pidx + 1]) IN
       /\ current_section' = r.current_section
       /\ fields' = r.fields
       /\ origins' = Extend(origins, Len(r.fields) - Len(fields), "para", pidx + 1)
       /\ secTrace' = Append(secTrace, r.current_section)
  /\ pidx' = pidx + 1
  /\ UNCHANGED <<tmpl, ppc, outcome>>
  /\ UNCHANGED promptVars
  /\ UNCHANGED <<runVars, cleanerVars, raceVars>>

\* WordTemplateParser.parse: the paragraph loop is over, the tables follow
ParagraphsDone ==
  /\ ppc = "paras"
  /\ pidx = Len(tmpl.paras)
  /\ ppc' = "tables"
  /\ pidx' = 0
  /\ UNCHANGED <<tmpl, current_section, fields, origins, secTrace, outcome>>
  /\ UNCHANGED promptVars
  /\ UNCHANGED <<runVars, cleanerVars, raceVars>>

\* WordTemplateParser.parse: one table
TableStep ==
  /\ ppc = "tables"
  /\ pidx < Len(tmpl.tables)
  /\ LET table_fields == parse_table(tmpl.tables[pidx + 1], current_section) IN
       /\ fields' = fields \o table_fields
       /\ origins' = Extend(origins, Len(table_fields), "table", pidx + 1)
  /\ pidx' = pidx + 1
  /\ UNCHANGED <<tmpl, ppc, current_section, secTrace, outcome>>
  /\ UNCHANGED promptVars
  /\ UNCHANGED <<runVars, cleanerVars, raceVars>>

\* ExcelTemplateParser.parse: one sheet
SheetStep ==
  /\ ppc = "sheets"
  /\ pidx < Len(tmpl.sheets)
  /\ LET r == ParseSheet(fields, tmpl.sheets[pidx + 1]) IN
       /\ fields' = r
       /\ origins' = Extend(origins, Len(r) - Len(fields), "sheet", pidx + 1)
  /\ pidx' = pidx + 1
  /\ UNCHANGED <<tmpl, ppc, current_section, secTrace, outcome>>
  /\ UNCHANGED promptVars
  /\ UNCHANGED <<runVars, cleanerVars, raceVars>>

\* parse_template after the parser returned
ParseTemplateExit ==
  /\ \/ ppc = "tables" /\ pidx = Len(tmpl.tables)
     \/ ppc = "sheets" /\ pidx = Len(tmpl.sheets)
  /\ outcome' = PostParse(fields)
  /\ ppc' = IF outcome'.kind = "returned" THEN "returned" ELSE "raised"
  /\ UNCHANGED <<tmpl, pidx, current_section, fields, origins, secTrace>>
  /\ UNCHANGED promptVars
  /\ UNCHANGED <<runVars, cleanerVars, raceVars>>

ParserNext ==
  \/ ParseTemplateEnter
  \/ ParagraphStep
  \/ ParagraphsDone
  \/ TableStep
  \/ SheetStep
  \/ ParseTemplateExit

ParserSpec == ParserInit /\ [][ParserNext]_vars

\* ------------------------------------------------------------------------
\* create_prompt on a loaded template
\* ------------------------------------------------------------------------
\* the variables of parse_template while create_prompt is looked at alone
ParserIdle ==
  /\ tmpl = Template(FALSE, <<>>, <<>>, <<>>, <<>>)
  /\ ppc = "idle"
  /\ pidx = 0
  /\ current_section = <<>>
  /\ fields = <<>>
  /\ origins = <<>>
  /\ secTrace = <<>>
  /\ outcome = NoOutcome

PromptInit ==
  /\ TEMPLATE_FIELDS \in FieldSets
  /\ frontend \in {"api", "web"}
  /\ prompt = NoPrompt
  /\ ParserIdle
  /\ RunIdle
  /\ CleanerIdle
  /\ RaceIdle

CreatePrompt ==
  /\ prompt = NoPrompt
  /\ TEMPLATE_FIELDS # <<>>
  /\ prompt' = create_prompt(TEMPLATE_FIELDS, frontend)
  /\ UNCHANGED <<TEMPLATE_FIELDS, frontend>>
  /\ UNCHANGED parserVars
  /\ UNCHANGED <<runVars, cleanerVars, raceVars>>

PromptNext == CreatePrompt

PromptSpec == PromptInit /\ [][PromptNext]_vars

\* ------------------------------------------------------------------------
\* clean_json_string applied to one response text
\* ------------------------------------------------------------------------
\* the JSON object {"a":1}
JsonA1 == <<"{", "\"", "a", "\"", ":", "1", "}">>
Lang == <<"j", "s", "o", "n">>

\* response texts: every short text of fences, line breaks, spaces and a
\* letter, and texts put together of an opening line, a body and a closing
\* line, each present or not and with or without space around it
ResponseAlphabet == {Backtick, "\n", " ", "x"}
ResponseParts ==
  [ lead  : {<<>>, <<" ">>, <<"\n">>},
    open  : {<<>>, Fence, Fence \o Lang, Fence \o <<" ">>, <<Backtick, Backtick>>},
    break : {<<>>, <<"\n">>, <<"\n", "\n">>},
    body  : {<<>>, JsonA1, <<"x">>, JsonA1 \o <<"\n">>, <<"x", "\n", "x">>},
    close : {<<>>, Fence, Fence \o <<" ">>, Fence \o <<"\n", "x">>} ]
ResponseTexts ==
  SeqsUpTo(ResponseAlphabet, MaxRespLen)
    \cup {p.lead \o p.open \o p.break \o p.body \o p.close : p \in ResponseParts}

CleanerInit ==
  /\ response_text \in ResponseTexts
  /\ cleaned = NotCleaned
  /\ ParserIdle
  /\ PromptIdle
  /\ RunIdle
  /\ RaceIdle

\* extract_study_with_api: text = clean_json_string(response.text)
Clean ==
  /\ cleaned = NotCleaned
  /\ cleaned' = clean_json_string(response_text)
  /\ UNCHANGED response_text
  /\ UNCHANGED <<parserVars, promptVars, runVars, raceVars>>

CleanerNext == Clean

CleanerSpec == CleanerInit /\ [][CleanerNext]_vars

\* ------------------------------------------------------------------------
\* main of both front-ends: one run
\* ------------------------------------------------------------------------
Init ==
  /\ frontend \in {"api", "web"}
  /\ template \in RunTemplates
  /\ dirExists \in BOOLEAN
  /\ articles \in Listings
  /\ limit \in Limits
  /\ file \in InitialFiles
  /\ file0 = file
  /\ pc = "start"
  /\ TEMPLATE_FIELDS = <<>>
  /\ ALL_COLUMNS = <<>>
  /\ prompt = NoPrompt
  /\ files_to_process = <<>>
  /\ idx = 0
  /\ attempt = 0
  /\ data = <<>>
  /\ row = NoFrame
  /\ df = NoFrame
  /\ lastSave = NoSave
  /\ log = <<>>
  /\ sample_state = "none"
  /\ polls = 0
  /\ returned = "nothing"
  /\ ParserIdle
  /\ CleanerIdle
  /\ RaceIdle

\* main going on to the articles with no field when the template fails
LoadTemplate_GoesOn ==
  /\ pc = "start"
  /\ \E r \in {parse_template(template)} :
       /\ TEMPLATE_FIELDS' = r.fields
       /\ ALL_COLUMNS' = get_field_names(r.fields)
       /\ pc' = "list"
  /\ UNCHANGED <<sample_state, polls, returned>>
  /\ UNCHANGED <<template, dirExists, articles, limit, file, files_to_process, idx,
                 attempt, data, row, df, file0, lastSave, log, frontend, prompt>>
  /\ UNCHANGED <<parserVars, cleanerVars, raceVars>>

\* main: load_template; the browser front-end tests the path first
LoadTemplate ==
  /\ pc = "start"
  /\ \E r \in {parse_template(template)} :
       IF (frontend = "web" /\ ~template.exists) \/ r.kind # "returned"
         THEN /\ pc' = "returned_early"
              /\ UNCHANGED <<TEMPLATE_FIELDS, ALL_COLUMNS>>
         ELSE /\ TEMPLATE_FIELDS' = r.fields
              /\ ALL_COLUMNS' = get_field_names(r.fields)
              /\ pc' = "list"
  /\ UNCHANGED <<sample_state, polls, returned>>
  /\ UNCHANGED <<template, dirExists, articles, limit, file, files_to_process, idx,
                 attempt, data, row, df, file0, lastSave, log, frontend, prompt>>
  /\ UNCHANGED <<parserVars, cleanerVars, raceVars>>

\* main: ARTICLES_DIR, the PDF files in it, the skip of the processed ones,
\* the limit, the prompt; the browser front-end then launches the browser
\* and returns when that fails
ListArticles ==
  /\ pc = "list"
  /\ IF ~dirExists
       THEN /\ pc' = "returned_early"
            /\ UNCHANGED <<files_to_process, prompt>>
       ELSE /\ files_to_process' =
                 ApplyLimit(FilterProcessed(frontend, SelectSeq(articles, IsPdf), file),
                            limit)
            /\ prompt' = create_prompt(TEMPLATE_FIELDS, frontend)
            /\ \/ pc' = "loop"
               \/ frontend = "web" /\ pc' = "launch_failed"
  /\ UNCHANGED <<sample_state, polls, returned>>
  /\ UNCHANGED <<template, dirExists, articles, limit, file, ALL_COLUMNS, idx, attempt,
                 data, row, df, file0, lastSave, log, TEMPLATE_FIELDS, frontend>>
  /\ UNCHANGED <<parserVars, cleanerVars, raceVars>>

pdf_path == files_to_process[idx + 1]
Submitting == pc = "loop" /\ idx < Len(files_to_process)
Logged(ev) == log' = Append(log, [ev |-> ev, doc |-> pdf_path])
\* sample_file.state.name as the service reports it
FileStates == {"PROCESSING", "ACTIVE", "FAILED"}

\* extract_study_with_api: genai.upload_file returned the file
Upload ==
  /\ Submitting
  /\ frontend = "api"
  /\ sample_state' \in FileStates
  /\ Logged("submit")
  /\ pc' = "uploaded"
  /\ UNCHANGED <<template, dirExists, articles, limit, file, ALL_COLUMNS,
                 files_to_process, idx, attempt, data, row, df, file0, lastSave,
                 polls>>
  /\ UNCHANGED returned
  /\ UNCHANGED <<parserVars, promptVars, cleanerVars, raceVars>>

\* extract_study_with_api: one turn of the loop on the state PROCESSING, a
\* second of sleep and genai.get_file; polls is the parity of the turns made
Poll ==
  /\ pc = "uploaded"
  /\ sample_state = "PROCESSING"
  /\ sample_state' \in FileStates
  /\ polls' = 1 - polls
  /\ UNCHANGED <<pc, template, dirExists, articles, limit, file, ALL_COLUMNS,
                 files_to_process, idx, attempt, data, row, df, file0, lastSave, log>>
  /\ UNCHANGED returned
  /\ UNCHANGED <<parserVars, promptVars, cleanerVars, raceVars>>

\* the retry loop making one attempt more than max_retries
AfterNoRecord_OneMore ==
  IF frontend = "api" /\ attempt + 1 <= max_retries
    THEN attempt' = attempt + 1 /\ idx' = idx
    ELSE attempt' = 0 /\ idx' = idx + 1

\* the retry loop after a call that gave no record: the next attempt, or
\* the next file after max_retries attempts; the browser front-end makes
\* one attempt
AfterNoRecord ==
  IF frontend = "api" /\ attempt + 1 < max_retries
    THEN attempt' = attempt + 1 /\ idx' = idx
    ELSE attempt' = 0 /\ idx' = idx + 1

\* the call for pdf_path ends and main's data gets what it returned: in the
\* browser front-end, and when upload_file itself raises, the submission is
\* made in the same step; after an upload, get_file or generate_content
\* ends it; sample_file is a local of the call and is gone when it returns
Ending(what) ==
  /\ \/ Submitting /\ Logged("submit")
     \/ pc = "uploaded" /\ UNCHANGED log
  /\ returned' = what
  /\ sample_state' = "none"
  /\ polls' = 0

\* extract_study_with_api / extract_data_from_page returned a record: the
\* uploaded file was neither PROCESSING nor FAILED and the response held a
\* JSON object
SubmitOk ==
  /\ Ending("record")
  /\ pc = "loop" => frontend = "web"
  /\ pc = "uploaded" => sample_state = "ACTIVE"
  /\ \E r \in RawRecords : data' = SetKey(r, SourceFile, Str(pdf_path))
  /\ pc' = "reconcile"
  /\ UNCHANGED <<template, dirExists, articles, limit, file, ALL_COLUMNS,
                 files_to_process, idx, attempt, row, df, file0, lastSave>>
  /\ UNCHANGED <<parserVars, promptVars, cleanerVars, raceVars>>

\* extract_study_with_api returned "RETRY": upload_file, get_file or
\* generate_content raised ResourceExhausted (quota exceeded)
SubmitRetry ==
  /\ frontend = "api"
  /\ Ending("RETRY")
  /\ AfterNoRecord
  /\ pc' = "loop"
  /\ UNCHANGED <<template, dirExists, articles, limit, file, ALL_COLUMNS,
                 files_to_process, data, row, df, file0, lastSave>>
  /\ UNCHANGED <<parserVars, promptVars, cleanerVars, raceVars>>

\* a failed extraction left uncaught: the exception ends the run
SubmitFail_Uncaught ==
  /\ Ending("None")
  /\ pc' = "crashed"
  /\ UNCHANGED <<template, dirExists, articles, limit, file, ALL_COLUMNS,
                 files_to_process, idx, attempt, data, row, df, file0, lastSave>>
  /\ UNCHANGED <<parserVars, promptVars, cleanerVars, raceVars>>

\* the extraction returned None: a failed upload, the state FAILED, a
\* service error, no JSON object in the response
SubmitFail ==
  /\ Ending("None")
  /\ AfterNoRecord
  /\ pc' = "loop"
  /\ UNCHANGED <<template, dirExists, articles, limit, file, ALL_COLUMNS,
                 files_to_process, data, row, df, file0, lastSave>>
  /\ UNCHANGED <<parserVars, promptVars, cleanerVars, raceVars>>

\* gemini_extractor: context.new_page or page.goto raised, outside every try
\* of extract_data_from_page; the exception ends the run
SubmitRaise ==
  /\ Submitting
  /\ frontend = "web"
  /\ Logged("submit")
  /\ pc' = "crashed"
  /\ UNCHANGED returned
  /\ UNCHANGED <<template, dirExists, articles, limit, file, ALL_COLUMNS,
                 files_to_process, idx, attempt, data, row, df, file0, lastSave,
                 sample_state, polls>>
  /\ UNCHANGED <<parserVars, promptVars, cleanerVars, raceVars>>

\* main, "Save Incrementally": the frame of the record
BuildRow ==
  /\ pc = "reconcile"
  /\ row' = Reconcile(data, ALL_COLUMNS)
  /\ df' = row'
  /\ pc' = "save_read"
  /\ UNCHANGED <<sample_state, polls, returned>>
  /\ UNCHANGED <<template, dirExists, articles, limit, file, ALL_COLUMNS,
                 files_to_process, idx, attempt, data, file0, lastSave, log>>
  /\ UNCHANGED <<parserVars, promptVars, cleanerVars, raceVars>>

\* main: pd.read_excel(OUTPUT_FILE) and pd.concat when the file exists; an
\* unreadable file or a refused concat ends the run with the exception
SaveRead ==
  /\ pc = "save_read"
  /\ IF file.kind = "absent"
       THEN pc' = "save_write" /\ df' = df
       ELSE IF file.kind = "corrupt" \/ ConcatRaises(read_excel(file), df)
         THEN pc' = "crashed" /\ df' = df
         ELSE pc' = "save_write" /\ df' = concat(read_excel(file), df)
  /\ UNCHANGED <<sample_state, polls, returned>>
  /\ UNCHANGED <<template, dirExists, articles, limit, file, ALL_COLUMNS,
                 files_to_process, idx, attempt, data, row, file0, lastSave, log>>
  /\ UNCHANGED <<parserVars, promptVars, cleanerVars, raceVars>>

\* main: df.to_excel(OUTPUT_FILE) wrote the whole table
SaveWriteOk ==
  /\ pc = "save_write"
  /\ file' = to_excel(df)
  /\ lastSave' = [status |-> "ok", before |-> file, row |-> row]
  /\ Logged("save")
  /\ idx' = idx + 1
  /\ attempt' = 0
  /\ pc' = "loop"
  /\ UNCHANGED <<sample_state, polls, returned>>
  /\ UNCHANGED <<template, dirExists, articles, limit, ALL_COLUMNS, files_to_process,
                 data, row, df, file0>>
  /\ UNCHANGED <<parserVars, promptVars, cleanerVars, raceVars>>

\* main: df.to_excel(OUTPUT_FILE) raised part-way; the exception ends the run
SaveWriteFail ==
  /\ pc = "save_write"
  /\ file' \in FailedWrites(df)
  /\ lastSave' = [status |-> "failed", before |-> file, row |-> row]
  /\ pc' = "crashed"
  /\ UNCHANGED <<sample_state, polls, returned>>
  /\ UNCHANGED <<template, dirExists, articles, limit, ALL_COLUMNS, files_to_process,
                 idx, attempt, data, row, df, file0, log>>
  /\ UNCHANGED <<parserVars, promptVars, cleanerVars, raceVars>>

\* main: the file loop is over
Finish ==
  /\ pc = "loop"
  /\ idx = Len(files_to_process)
  /\ pc' = "done"
  /\ UNCHANGED <<sample_state, polls, returned>>
  /\ UNCHANGED <<template, dirExists, articles, limit, file, ALL_COLUMNS,
                 files_to_process, idx, attempt, data, row, df, file0, lastSave, log>>
  /\ UNCHANGED <<parserVars, promptVars, cleanerVars, raceVars>>

Next ==
  \/ LoadTemplate
  \/ ListArticles
  \/ Upload
  \/ Poll
  \/ SubmitOk
  \/ SubmitRetry
  \/ SubmitFail
  \/ SubmitRaise
  \/ BuildRow
  \/ SaveRead
  \/ SaveWriteOk
  \/ SaveWriteFail
  \/ Finish

Spec == Init /\ [][Next]_vars

\* __main__: the status the process ends with when main has returned (0)
\* or an exception has left it (1)
exit_status == IF pc = "crashed" THEN 1 ELSE 0

\* the file loop of main as a process that is not stopped from outside: the
\* runs that have loaded the three-field template and find the directory
\* and no OUTPUT_FILE; a run takes a step whenever it can
LoopTemplate ==
  Template(TRUE, <<"t", ".", "d", "o", "c", "x">>,
           << <<"X", ":">>, <<"Y", ":", " ", "d">>, <<"Z", ":">> >>, <<>>, <<>>)

LoopInit ==
  /\ frontend \in {"api", "web"}
  /\ template = LoopTemplate
  /\ dirExists = TRUE
  /\ articles \in Listings
  /\ limit = NoLimit
  /\ file = AbsentFile
  /\ file0 = file
  /\ pc = "list"
  /\ TEMPLATE_FIELDS = parse_template(LoopTemplate).fields
  /\ ALL_COLUMNS = get_field_names(TEMPLATE_FIELDS)
  /\ prompt = NoPrompt
  /\ files_to_process = <<>>
  /\ idx = 0
  /\ attempt = 0
  /\ data = <<>>
  /\ row = NoFrame
  /\ df = NoFrame
  /\ lastSave = NoSave
  /\ log = <<>>
  /\ sample_state = "none"
  /\ polls = 0
  /\ returned = "nothing"
  /\ ParserIdle
  /\ CleanerIdle
  /\ RaceIdle

LoopNext ==
  \/ ListArticles
  \/ Upload
  \/ Poll
  \/ SubmitOk
  \/ SubmitRetry
  \/ SubmitFail
  \/ SubmitRaise
  \/ BuildRow
  \/ SaveRead
  \/ SaveWriteOk
  \/ SaveWriteFail
  \/ Finish

FairSpec == LoopInit /\ [][LoopNext]_vars /\ WF_vars(LoopNext)

\* ------------------------------------------------------------------------
\* Two runs of main at once on the same OUTPUT_FILE (RaceSpec): each run has
\* loaded the three-field template and holds its own list of files; the
\* steps of the two runs interleave
\* ------------------------------------------------------------------------
RaceColumns == get_field_names(parse_template(LoopTemplate).fields)

\* the lists of files a run may hold, of a directory with two articles
RaceFiles ==
  {l \in SeqsUpTo({a_pdf, ba_pdf}, MaxRaceDocs) : l # <<>> /\ Unique(l)}

\* the JSON objects the service returns to the two runs
RaceRecords ==
  { << Item(NameX, Str(<<"1">>)), Item(NameW, Str(<<"i","g","n">>)) >>,
    <<>> }

RaceInit ==
  /\ table \in {AbsentFile,
                TableFile(XYZ, << <<Str(n_txt), Str(<<"0">>), EmptyCell, EmptyCell>> >>)}
  /\ rpc = [r \in Runs |-> "loop"]
  /\ rfiles \in [Runs -> RaceFiles]
  /\ ridx = [r \in Runs |-> 0]
  /\ rrow = [r \in Runs |-> NoFrame]
  /\ rdf = [r \in Runs |-> NoFrame]
  /\ saved = <<>>
  /\ reported = {}
  /\ ParserIdle
  /\ PromptIdle
  /\ RunIdle
  /\ CleanerIdle

rpath(r) == rfiles[r][ridx[r] + 1]

\* main of run r: the extraction returned a record and df is built from it
RunExtract(r) ==
  /\ rpc[r] = "loop"
  /\ ridx[r] < Len(rfiles[r])
  /\ \E raw \in RaceRecords :
       rrow' = [rrow EXCEPT
                  ![r] = Reconcile(SetKey(raw, SourceFile, Str(rpath(r))), RaceColumns)]
  /\ rdf' = [rdf EXCEPT ![r] = rrow'[r]]
  /\ rpc' = [rpc EXCEPT ![r] = "save_read"]
  /\ UNCHANGED <<table, rfiles, ridx, saved, reported>>
  /\ UNCHANGED <<parserVars, promptVars, runVars, cleanerVars>>

\* main of run r: the extraction gave no record and the run goes on to its
\* next file
RunNoRecord(r) ==
  /\ rpc[r] = "loop"
  /\ ridx[r] < Len(rfiles[r])
  /\ ridx' = [ridx EXCEPT ![r] = ridx[r] + 1]
  /\ UNCHANGED <<table, rpc, rfiles, rrow, rdf, saved, reported>>
  /\ UNCHANGED <<parserVars, promptVars, runVars, cleanerVars>>

\* main of run r: pd.read_excel(OUTPUT_FILE) and pd.concat when the file
\* exists; an unreadable file or a refused concat ends the run with the
\* exception
RunRead(r) ==
  /\ rpc[r] = "save_read"
  /\ IF table.kind = "absent"
       THEN rpc' = [rpc EXCEPT ![r] = "save_write"] /\ UNCHANGED <<rdf, reported>>
       ELSE IF table.kind = "corrupt" \/ ConcatRaises(read_excel(table), rdf[r])
         THEN /\ rpc' = [rpc EXCEPT ![r] = "crashed"]
              /\ reported' = reported \cup {r}
              /\ UNCHANGED rdf
         ELSE /\ rpc' = [rpc EXCEPT ![r] = "save_write"]
              /\ rdf' = [rdf EXCEPT ![r] = concat(read_excel(table), rdf[r])]
              /\ UNCHANGED reported
  /\ UNCHANGED <<table, rfiles, ridx, rrow, saved>>
  /\ UNCHANGED <<parserVars, promptVars, runVars, cleanerVars>>

\* a run that reads the file again when it writes
RunWriteOk_ReadAgain(r) ==
  /\ rpc[r] = "save_write"
  /\ table.kind # "corrupt"
  /\ table' = IF table.kind = "absent"
                THEN to_excel(rrow[r])
                ELSE to_excel(concat(read_excel(table), rrow[r]))
  /\ saved' = Append(saved, [run |-> r, doc |-> rpath(r),
                             row |-> table'.rows[Len(table'.rows)]])
  /\ ridx' = [ridx EXCEPT ![r] = ridx[r] + 1]
  /\ rpc' = [rpc EXCEPT ![r] = "loop"]
  /\ UNCHANGED <<rfiles, rrow, rdf, reported>>
  /\ UNCHANGED <<parserVars, promptVars, runVars, cleanerVars>>

\* main of run r: df.to_excel(OUTPUT_FILE) wrote the whole table and the
\* run printed "Saved ..."
RunWriteOk(r) ==
  /\ rpc[r] = "save_write"
  /\ table' = to_excel(rdf[r])
  /\ saved' = Append(saved, [run |-> r, doc |-> rpath(r),
                             row |-> table'.rows[Len(table'.rows)]])
  /\ ridx' = [ridx EXCEPT ![r] = ridx[r] + 1]
  /\ rpc' = [rpc EXCEPT ![r] = "loop"]
  /\ UNCHANGED <<rfiles, rrow, rdf, reported>>
  /\ UNCHANGED <<parserVars, promptVars, runVars, cleanerVars>>

\* main of run r: df.to_excel(OUTPUT_FILE) raised part-way; the exception
\* ends the run
RunWriteFail(r) ==
  /\ rpc[r] = "save_write"
  /\ table' \in FailedWrites(rdf[r])
  /\ rpc' = [rpc EXCEPT ![r] = "crashed"]
  /\ reported' = reported \cup {r}
  /\ UNCHANGED <<rfiles, ridx, rrow, rdf, saved>>
  /\ UNCHANGED <<parserVars, promptVars, runVars, cleanerVars>>

\* main of run r: the file loop is over
RunFinish(r) ==
  /\ rpc[r] = "loop"
  /\ ridx[r] = Len(rfiles[r])
  /\ rpc' = [rpc EXCEPT ![r] = "done"]
  /\ UNCHANGED <<table, rfiles, ridx, rrow, rdf, saved, reported>>
  /\ UNCHANGED <<parserVars, promptVars, runVars, cleanerVars>>

RaceNext ==
  \E r \in Runs :
    \/ RunExtract(r)
    \/ RunNoRecord(r)
    \/ RunRead(r)
    \/ RunWriteOk(r)
    \/ RunWriteFail(r)
    \/ RunFinish(r)

RaceSpec == RaceInit /\ [][RaceNext]_vars

\* ------------------------------------------------------------------------
\* Claims on the template parsers (ParserSpec)
\* ------------------------------------------------------------------------
ParserEnded == ppc \in {"raised", "returned"}

IsHeaderLine(para) == Strip(para) # <<>> /\ is_section_header(Strip(para))

\* the text of the last section-header line among the first n paragraphs,
\* the empty string when there is none
RECURSIVE LastHeader(_, _)
LastHeader(paras, n) ==
  IF n = 0 THEN <<>>
  ELSE IF IsHeaderLine(paras[n]) THEN Strip(paras[n])
  ELSE LastHeader(paras, n - 1)

\* C6: every field emitted from a paragraph carries the text of the most
\* recent section-header line before that paragraph, and the empty string
\* when no section header precedes it.
C6_SectionInheritance ==
  \A i \in 1..Len(fields) :
    origins[i].src = "para" =>
      fields[i].section = LastHeader(tmpl.paras, origins[i].at - 1)

\* one field was emitted before any header, with the empty section, and a
\* later one under a header
C6_Witness ==
  \E i, j \in 1..Len(fields) :
    /\ origins[i].src = "para" /\ fields[i].section = <<>>
    /\ origins[j].src = "para" /\ fields[j].section # <<>>
    /\ \E k \in (origins[i].at + 1)..(origins[j].at - 1) : IsHeaderLine(tmpl.paras[k])

\* C7: a line that ends with a colon is never classified as a section
\* header, whatever else it looks like, and handling it leaves the current
\* section as it was.
C7_ColonPriority ==
  \A k \in 1..Len(secTrace) :
    LET text == Strip(tmpl.paras[k]) IN
      EndsWith(text, <<":">>) =>
        /\ ~is_section_header(text)
        /\ secTrace[k] = IF k = 1 THEN <<>> ELSE secTrace[k - 1]

\* a colon-ended line that would be a header without its colon was handled
\* while a section was current
C7_Witness ==
  \E k \in 2..Len(secTrace) :
    LET text == Strip(tmpl.paras[k]) IN
      /\ EndsWith(text, <<":">>)
      /\ SECTION_PATTERNS(SubSeq(text, 1, Len(text) - 1))
      /\ secTrace[k - 1] # <<>>
      /\ secTrace[k] = secTrace[k - 1]

\* the name holds a denylisted substring, in any case
Denylisted(name) ==
  \E keyword \in title_keywords :
    \E i \in 0..(Len(name) - Len(keyword)) :
      \A j \in 1..Len(keyword) : LowerChar(name[i + j]) = keyword[j]

\* C8: no field of the document-form parser, from a paragraph or from a
\* table row, has a name that holds 'template', 'data extraction' or
\* 'meta-analysis' in any case.
C8_TitleFilter ==
  \A i \in 1..Len(fields) :
    origins[i].src \in {"para", "table"} => ~Denylisted(fields[i].name)

\* a Field Set was returned for a document with a title-like paragraph and
\* a title-like table row
C8_Witness ==
  /\ ppc = "returned"
  /\ \E k \in 1..Len(tmpl.paras) :
       FIELD_PATTERN(Strip(tmpl.paras[k]))
       /\ Denylisted(FieldGroup1(Strip(tmpl.paras[k])))
  /\ \E t \in 1..Len(tmpl.tables) : \E r \in 1..Len(tmpl.tables[t]) :
       Len(tmpl.tables[t][r]) >= 2 /\ Denylisted(tmpl.tables[t][r][1])
  /\ \E i, j \in 1..Len(fields) : origins[i].src = "para" /\ origins[j].src = "table"

\* s is a subsequence of t
RECURSIVE IsSubsequence(_, _)
IsSubsequence(s, t) ==
  IF s = <<>> THEN TRUE
  ELSE IF t = <<>> THEN FALSE
  ELSE IF Head(s) = Head(t) THEN IsSubsequence(Tail(s), Tail(t))
  ELSE IsSubsequence(s, Tail(t))

\* the names of the fields that came from table t, in the Field Set's order
RECURSIVE NamesFromTable(_, _, _)
NamesFromTable(fs, orig, t) ==
  IF fs = <<>> THEN <<>>
  ELSE LET rest == NamesFromTable(Tail(fs), Tail(orig), t) IN
    IF Head(orig).src = "table" /\ Head(orig).at = t
      THEN <<Head(fs).name>> \o rest
      ELSE rest

RECURSIVE SplitLines(_, _)
SplitLines(text, line) ==
  IF text = <<>> THEN <<line>>
  ELSE IF Head(text) = "\n" THEN <<line>> \o SplitLines(Tail(text), <<>>)
  ELSE SplitLines(Tail(text), Append(line, Head(text)))

IsBanner(line) ==
  /\ Len(line) >= 8
  /\ StartsWith(line, <<"-", "-", "-", " ">>)
  /\ EndsWith(line, <<" ", "-", "-", "-">>)
IsBullet(line) == StartsWith(line, <<"-", " ">>)
IsBannerOrBullet(line) == IsBanner(line) \/ IsBullet(line)

\* the banners and bullets of the prompt, in the prompt's order
PromptStructure == SelectSeq(SplitLines(prompt, <<>>), IsBannerOrBullet)

BannerOf(label) == <<"-", "-", "-", " ">> \o label \o <<" ", "-", "-", "-">>
BulletOf(field) ==
  IF field.description = <<>>
    THEN <<"-", " ">> \o field.name
    ELSE <<"-", " ">> \o field.name \o <<":", " ">> \o field.description
Shown(section) == IF section = <<>> THEN General ELSE section

\* the bullets of the fields whose key is k, in the fields' order
RECURSIVE BulletsOfKey(_, _, _)
BulletsOfKey(fs, keys, k) ==
  IF fs = <<>> THEN <<>>
  ELSE (IF Head(keys) = k THEN <<BulletOf(Head(fs))>> ELSE <<>>)
         \o BulletsOfKey(Tail(fs), Tail(keys), k)

\* for each distinct key in the order of its first occurrence: its banner,
\* then the bullets of its fields
RECURSIVE BlocksFrom(_, _, _)
BlocksFrom(fs, keys, n) ==
  IF n > Len(keys) THEN <<>>
  ELSE (IF \E m \in 1..(n - 1) : keys[m] = keys[n]
          THEN <<>>
          ELSE <<BannerOf(Shown(keys[n]))>> \o BulletsOfKey(fs, keys, keys[n]))
         \o BlocksFrom(fs, keys, n + 1)

SectionValues == [i \in 1..Len(TEMPLATE_FIELDS) |-> TEMPLATE_FIELDS[i].section]
SectionLabels == [i \in 1..Len(TEMPLATE_FIELDS) |-> Shown(TEMPLATE_FIELDS[i].section)]

NoLineBreaks ==
  \A i \in 1..Len(TEMPLATE_FIELDS) :
    /\ NoLineBreak(TEMPLATE_FIELDS[i].name)
    /\ NoLineBreak(TEMPLATE_FIELDS[i].description)
    /\ NoLineBreak(TEMPLATE_FIELDS[i].section)

C1_Reconciliation ==
  row # NoFrame =>
    /\ row.columns = <<SourceFile>> \o ALL_COLUMNS
    /\ Len(row.rows) = 1
    /\ Len(row.rows[1]) = 1 + Len(ALL_COLUMNS)
    /\ pc \in {"save_read", "save_write"} => row.rows[1][1] = Str(pdf_path)
    /\ pc # "reconcile" =>
         /\ row.rows[1][1] = GetKey(data, SourceFile)
         /\ \A i \in 1..Len(ALL_COLUMNS) :
              row.rows[1][i + 1] =
                IF HasKey(data, ALL_COLUMNS[i])
                  THEN GetKey(data, ALL_COLUMNS[i]) ELSE None

\* the example: fields X, Y, Z and the record {X: 1, W: ..., Source File:
\* a.pdf} gave the row a.pdf, 1, null, null
C1_Witness ==
  /\ ALL_COLUMNS = <<NameX, NameY, NameZ>>
  /\ data = << Item(NameX, Str(<<"1">>)), Item(NameW, Str(<<"i","g","n">>)),
               Item(SourceFile, Str(a_pdf)) >>
  /\ row = Frame(<<SourceFile, NameX, NameY, NameZ>>,
                 << <<Str(a_pdf), Str(<<"1">>), None, None>> >>)

\* the rows of table `old` are the first rows of table `new`, cell by cell
\* under old's columns, and hold nothing under the columns `new` added
IsRowPrefix(old, new) ==
  /\ Len(old.rows) <= Len(new.rows)
  /\ Len(old.columns) <= Len(new.columns)
  /\ \A r \in 1..Len(old.rows) :
       /\ Len(new.rows[r]) = Len(new.columns)
       /\ \A j \in 1..Len(old.columns) : new.rows[r][j] = old.rows[r][j]
       /\ \A j \in (Len(old.columns) + 1)..Len(new.columns) :
            new.rows[r][j] = EmptyCell

\* the last row of the table holds the cells of the one-row frame, column by
\* column, and nothing elsewhere
LastRowIs(new, frame) ==
  LET last == new.rows[Len(new.rows)] IN
    \A j \in 1..Len(new.columns) :
      last[j] = IF InColumns(frame, new.columns[j])
                  THEN WriteCell(frame.rows[1][ColumnAt(frame, new.columns[j])])
                  ELSE EmptyCell

\* C2: after every successful save the rows the table held before the save
\* are its first rows, unchanged and in the same order, and the new row
\* follows directly beneath them; so the rows the run found stay the first
\* rows of the table through every save.
C2_AppendOnly ==
  /\ lastSave.status = "ok" =>
       /\ file.kind = "table"
       /\ Len(file.rows) = Len(lastSave.before.rows) + 1
       /\ IsRowPrefix(lastSave.before, file)
       /\ LastRowIs(file, lastSave.row)
  /\ (lastSave.status # "failed" /\ file0.kind = "table") =>
       file.kind = "table" /\ IsRowPrefix(file0, file)

\* C3: a save that fails part-way leaves the persisted table exactly as it
\* was before the save began.
C3_AtomicSave ==
  lastSave.status = "failed" => file = lastSave.before

\* the identifiers in the table the run found
RecordedAtStart ==
  IF file0.kind = "table" /\ \E j \in 1..Len(file0.columns) : file0.columns[j] = SourceFile
    THEN {file0.rows[r][ColumnAt(file0, SourceFile)].text :
            r \in {q \in 1..Len(file0.rows) :
                     file0.rows[q][ColumnAt(file0, SourceFile)].kind = "str"}}
    ELSE {}

\* C4: a document whose basename is in the identifier column of the table
\* when the run starts is never submitted and gets no row; and a document
\* saved in the run is not submitted again.
C4_Idempotence ==
  /\ \A k \in 1..Len(log) : log[k].doc \notin RecordedAtStart
  /\ (file.kind = "table" /\ file0.kind = "table"
        /\ \E j \in 1..Len(file.columns) : file.columns[j] = SourceFile) =>
       \A r \in (Len(file0.rows) + 1)..Len(file.rows) :
         file.rows[r][ColumnAt(file, SourceFile)].text \notin RecordedAtStart
  /\ \A i, j \in 1..Len(log) :
       (i < j /\ log[i].ev = "save" /\ log[j].ev = "submit") => log[i].doc # log[j].doc

\* a run that found a recorded document in the directory ended having
\* submitted and saved another one
C4_Witness ==
  /\ pc = "done"
  /\ \E i \in 1..Len(articles) : articles[i] \in RecordedAtStart
  /\ \E k \in 1..Len(log) : log[k].ev = "save"
  /\ Len(file.rows) = Len(file0.rows) + 1

\* ------------------------------------------------------------------------
\* Claims on the response cleaner (CleanerSpec)
\* ------------------------------------------------------------------------
\* a text without its first line: what follows the first line break, and
\* nothing when the text is one line
WithoutFirstLine(s) ==
  LET lines == SplitLines(s, <<>>) IN
    IF \E k \in 1..Len(s) : s[k] = "\n"
      THEN SubSeq(s, Len(lines[1]) + 2, Len(s))
      ELSE <<>>

WithoutClosingFence(s) ==
  IF EndsWith(s, Fence) THEN SubSeq(s, 1, Len(s) - 3) ELSE s

\* C11 as stated: the stripped text, when it begins with a fence, loses its
\* first line and then a closing fence, and is stripped again; otherwise the
\* stripped text is returned.
C11_AsStated ==
  cleaned # NotCleaned =>
    cleaned = IF StartsWith(Strip(response_text), Fence)
                THEN Strip(WithoutClosingFence(WithoutFirstLine(Strip(response_text))))
                ELSE Strip(response_text)

\* C11, amended: the first line is dropped only from a fenced text that has
\* a line break; a fenced text of one line keeps its opening fence and loses
\* only a closing one. A text that does not begin with a fence is returned
\* stripped and otherwise unchanged, and the fenced object {"a":1} cleans to
\* {"a":1}.
C11_ResponseCleaning ==
  cleaned # NotCleaned =>
    LET text == Strip(response_text)
        oneLine == \A k \in 1..Len(text) : text[k] # "\n"
    IN /\ cleaned = Strip(cleaned)
       /\ ~StartsWith(text, Fence) => cleaned = text
       /\ (StartsWith(text, Fence) /\ ~oneLine) =>
            cleaned = Strip(WithoutClosingFence(WithoutFirstLine(text)))
       /\ (StartsWith(text, Fence) /\ oneLine) =>
            cleaned = Strip(WithoutClosingFence(text))
       /\ text = Fence \o Lang \o <<"\n">> \o JsonA1 \o <<"\n">> \o Fence =>
            cleaned = JsonA1

\* the fenced JSON object of the example was cleaned
C11_Witness ==
  /\ response_text = <<" ">> \o Fence \o Lang \o <<"\n">> \o JsonA1 \o <<"\n">> \o Fence
  /\ cleaned = JsonA1

\* the number of submissions of document d in the log l
Submissions(l, d) ==
  Cardinality({k \in 1..Len(l) : l[k].ev = "submit" /\ l[k].doc = d})

Saved(l, d) == \E k \in 1..Len(l) : l[k].ev = "save" /\ l[k].doc = d

\* the identifiers of the rows beneath those the run found
AppendedIds ==
  IF file.kind = "table" /\ InColumns(file, SourceFile)
    THEN {file.rows[r][ColumnAt(file, SourceFile)].text :
            r \in (Len(file0.rows) + 1)..Len(file.rows)}
    ELSE {}

\* a step in which the API call for the current document ends without a
\* record: None (failed upload, service error, invalid JSON) or "RETRY"
NoRecordStep ==
  /\ frontend = "api"
  /\ \/ pc = "loop" /\ log' # log /\ pc' # "uploaded"
     \/ pc = "uploaded" /\ pc' # "uploaded"
  /\ returned' \in {"None", "RETRY"}

\* C12: in the API front-end a failed extraction of a document raises no
\* unhandled fault (the run stays in its file loop), leaves the persisted
\* table unchanged and appends no row for the document (rows are appended
\* for saved documents only), and the later documents are still attempted:
\* the run goes on with this document or the next one, and a run that ends
\* its loop has submitted every document of its list.
C12_FailureIsolation ==
  /\ [][NoRecordStep =>
          /\ pc' = "loop"
          /\ file' = file
          /\ lastSave' = lastSave
          /\ idx' \in {idx, idx + 1}
          /\ files_to_process' = files_to_process]_vars
  /\ [](frontend = "api" =>
          /\ lastSave.status # "failed" =>
               AppendedIds = {d \in ArticleNames : Saved(log, d)}
          /\ pc = "done" =>
               \A i \in 1..Len(files_to_process) :
                 Submissions(log, files_to_process[i]) >= 1)

\* an API run ended having given up on its first document and saved its
\* second one
C12_Witness ==
  /\ frontend = "api"
  /\ pc = "done"
  /\ Len(files_to_process) = 2
  /\ ~Saved(log, files_to_process[1])
  /\ Saved(log, files_to_process[2])
  /\ AppendedIds = {files_to_process[2]}

\* C13: in the API front-end no document is submitted more than max_retries
\* (3) times, whatever the outcomes; nothing is submitted while or after a
\* document's record is saved; and the run leaves a document without a
\* record exactly when its third submission has failed, retrying it before.
C13_BoundedRetry ==
  /\ [](frontend = "api" =>
          /\ \A d \in ArticleNames : Submissions(log, d) <= max_retries
          /\ attempt < max_retries
          /\ \A i, j \in 1..Len(log) :
               (i < j /\ log[i].ev = "save" /\ log[j].ev = "submit")
                 => log[i].doc # log[j].doc
          /\ pc \in {"reconcile", "save_read", "save_write"} =>
               log[Len(log)] = [ev |-> "submit", doc |-> pdf_path])
  /\ [][NoRecordStep =>
          IF Submissions(log', pdf_path) = max_retries
            THEN idx' = idx + 1 /\ attempt' = 0
            ELSE idx' = idx /\ attempt' = attempt + 1]_vars

\* an API run gave up on a document after three submissions, a quota
\* refusal among them
C13_Witness ==
  /\ frontend = "api"
  /\ pc = "loop"
  /\ idx = 1
  /\ attempt = 0
  /\ Submissions(log, files_to_process[1]) = max_retries
  /\ ~Saved(log, files_to_process[1])
  /\ returned = "RETRY"

\* the run is over: the file loop was completed, main returned before it,
\* or an exception ended the run
Ended == pc \in {"done", "returned_early", "launch_failed", "crashed"}

\* C14: whatever the service answers, the waits at the service boundary are
\* bounded and the run ends: every run that keeps taking steps reaches the
\* end of its file loop (or ends before it on a pre-flight error or with an
\* exception of a save, which are no answers of the service).
C14_RunTerminates == <>Ended

\* the template of the run cannot be loaded, or ARTICLES_DIR is missing
TemplateFails ==
  \/ ~template.exists
  \/ detect_template_format(template.filepath) = "None"
  \/ parse_template(template).fields = <<>>

PreflightFails == ~dirExists \/ TemplateFails

\* nothing was submitted, no prompt was built and the table is as found
Untouched ==
  /\ log = <<>>
  /\ prompt = NoPrompt
  /\ files_to_process = <<>>
  /\ file = file0
  /\ lastSave = NoSave

\* C15: a run whose template cannot be loaded or whose input directory is
\* missing ends at once: it returns at the failing check (only a template
\* that loads gets past the first one, only an existing directory past the
\* second), and up to the return it submits nothing, builds no prompt, and
\* leaves the persisted table as it found it, absent or not.
C15_PreflightFailFast ==
  /\ pc \notin {"start", "returned_early"} => ~TemplateFails
  /\ pc \notin {"start", "list", "returned_early"} => dirExists
  /\ pc \in {"start", "list", "returned_early"} => Untouched
  /\ pc = "returned_early" => PreflightFails

\* a run returned on a template in which no field was found, beside a table
\* and documents it never touched
C15_Witness ==
  /\ pc = "returned_early"
  /\ template.exists
  /\ parse_template(template).kind = "EmptyTemplate"
  /\ dirExists
  /\ articles # <<>>
  /\ file.kind = "table"

\* C16: the process ends with status 0 when the run has completed its
\* document list, and with a non-zero status when a pre-flight check failed.
C16_ExitStatus ==
  /\ pc = "done" => exit_status = 0
  /\ pc = "returned_early" => exit_status # 0

\* ------------------------------------------------------------------------
\* Further claims on the template parsers (ParserSpec)
\* ------------------------------------------------------------------------
\* the paragraph at position k gave a field
GaveField(k) ==
  \E i \in 1..Len(origins) : origins[i].src = "para" /\ origins[i].at = k

\* C17: a non-blank paragraph line that the header classifier accepts
\* becomes the current section and gives no field, also when it has the
\* shape name: description; every field of a paragraph comes from a line the
\* classifier rejected.
C17_HeaderBeforeField ==
  \A k \in 1..Len(secTrace) :
    LET text == Strip(tmpl.paras[k]) IN
      /\ (text # <<>> /\ is_section_header(text)) =>
           /\ secTrace[k] = text
           /\ ~GaveField(k)
      /\ GaveField(k) => ~is_section_header(text)

\* a title-case line with a colon in its middle, which has the shape of a
\* field definition with a name that is no title, was handled and is the
\* current section
C17_Witness ==
  \E k \in 1..Len(secTrace) :
    LET text == Strip(tmpl.paras[k]) IN
      /\ is_section_header(text)
      /\ FIELD_PATTERN(text)
      /\ ~is_likely_title(Strip(FieldGroup1(text)))
      /\ k = Len(secTrace)
      /\ current_section = text
      /\ ~GaveField(k)

\* C18: every field the parsers return has a name that is not empty after
\* trimming, whether it comes from a paragraph, a table row or a spreadsheet
\* column header.
C18_NoEmptyNames ==
  /\ \A i \in 1..Len(fields) : Strip(fields[i].name) # <<>>
  /\ \A i \in 1..Len(outcome.fields) : Strip(outcome.fields[i].name) # <<>>

\* C20: in both front-ends the skip excludes a document only when its
\* basename equals a recorded identifier: the documents of the directory whose
\* basename equals no identifier of the table at the start of the run, cut to
\* the limit, are all in the list to process (a basename that is only a part
\* of a recorded identifier stays).
C20_SkipOnlyProcessed ==
  pc \notin {"start", "list", "returned_early"} =>
    LET NotRecorded(b) == b \notin RecordedAtStart
        expected == ApplyLimit(SelectSeq(SelectSeq(articles, IsPdf), NotRecorded), limit)
    IN \A i \in 1..Len(expected) :
         \E j \in 1..Len(files_to_process) : files_to_process[j] = expected[i]

\* ------------------------------------------------------------------------
\* Claims on two concurrent runs (RaceSpec)
\* ------------------------------------------------------------------------
InTable(f, r) == \E q \in 1..Len(f.rows) : f.rows[q] = r

\* run r wrote the table and printed "Saved"
SavedStep(r) == rpc[r] = "save_write" /\ rpc'[r] = "loop"

\* C19: when a run saves, every row another run saved after this run read
\* the table (a row that is not in the frame this run writes) is absent from
\* the table after the save, the save counts as a success and no error is
\* reported to either run: two interleaved runs lose a saved row silently.
C19_LostUpdate ==
  [][\A r \in Runs :
       SavedStep(r) =>
         /\ reported' = reported
         /\ Len(saved') = Len(saved) + 1
         /\ \A k \in 1..Len(saved) :
              ~InTable(to_excel(rdf[r]), saved[k].row) => ~InTable(table', saved[k].row)]_vars

\* both runs are over, no error was reported to either, and a row one of
\* them saved is not in the table the other one left
C19_Witness ==
  /\ \A r \in Runs : rpc[r] = "done"
  /\ reported = {}
  /\ \E k \in 1..Len(saved) :
       /\ ~InTable(table, saved[k].row)
       /\ \E j \in (k + 1)..Len(saved) : saved[j].run # saved[k].run

====
